---------------------------- MODULE Spec2Model ----------------------------
(***************************************************************************)
(* Model of scripts/doc_api_reference.py: the regular-expression variant   *)
(* of the reference-doc splicer.  The script is a straight-line program    *)
(* over the filesystem; the model keeps the filesystem as a function from  *)
(* paths to nodes, the position of the script (pc, the line of the         *)
(* statement about to run), the iterator of the running for-loop (todo),   *)
(* the script's global variables content and body_content, and the         *)
(* uncaught exception that ended the run, if any (exc).                    *)
(*                                                                         *)
(* A path is a sequence of names.  A node is a record                      *)
(*   [kind : "dir" | "file", content : sequence of tokens, ino : path]     *)
(* where ino identifies the node (its inode): the path it had in the       *)
(* initial state.  Moves keep ino, overwriting a file in place keeps ino.  *)
(*                                                                         *)
(* File content is a sequence of tokens: the literal strings the script's  *)
(* regular expressions look for, plus a few pieces of other text.          *)
(***************************************************************************)
EXTENDS Integers, Sequences, FiniteSets, TLC

VARIABLES fs, pc, exc, todo, content, body_content, visited, run, fs0, after1

vars == <<fs, pc, exc, todo, content, body_content, visited, run, fs0, after1>>

(***************************************************************************)
(* Bounds of the model.                                                    *)
(***************************************************************************)
\* most top-level entries the source directory holds initially
MaxSrc == 3
\* most entries a previous run left in the staging directory
MaxStale == 1
\* most entries of an earlier build present in the destination directory
MaxOld == 1
\* most consecutive runs of the script
MaxRuns == 2

(***************************************************************************)
(* Paths (lines 5-10).                                                     *)
(***************************************************************************)
DOC_BUILD_HTML == <<"documentation-html">>
SOURCE_FILE == DOC_BUILD_HTML \o <<"api_reference", "test", "index.html">>
SOURCE_DIRECTORY == <<"dist", "pkg", "github.com", "ansys", "allie-flowkit", "pkg">>
REPLACEMENT_DIRECTORY == DOC_BUILD_HTML \o <<"api_reference", "pkg">>
ACTUAL_DIR == DOC_BUILD_HTML \o <<"api_reference">>

(***************************************************************************)
(* Tokens: the literal texts of the patterns of lines 44, 49 and 58.       *)
(***************************************************************************)
BodyOpen == "<body>"
BodyClose == "</body>"
TopHeading == "<div class=\"top-heading\" id=\"heading-wide\"><a href=\"/pkg/github.com/ansys/allie-flowkit/\">GoPages | Auto-generated docs</a></div>"
MenuButton == "<a href=\"#\" id=\"menu-button\"><span id=\"menu-button-arrow\">&#9661;</span></a>"
ArticleOpen == "<article class=\"bd-article\" role=\"main\">"
ArticleClose == "</article>"

(***************************************************************************)
(* str.replace('/', r'\/') on one token (line 52): every token of the      *)
(* model that holds a '/' is listed with its escaped text.                 *)
(***************************************************************************)
EscapeToken(t) ==
  CASE t = "/" -> "\\/"
    [] t = BodyClose -> "<\\/body>"
    [] t = ArticleClose -> "<\\/article>"
    [] t = TopHeading -> "<div class=\"top-heading\" id=\"heading-wide\"><a href=\"\\/pkg\\/github.com\\/ansys\\/allie-flowkit\\/\">GoPages | Auto-generated docs<\\/a><\\/div>"
    [] t = MenuButton -> "<a href=\"#\" id=\"menu-button\"><span id=\"menu-button-arrow\">&#9661;<\\/span><\\/a>"
    [] OTHER -> t

EscapeSlashes(s) == [i \in 1..Len(s) |-> EscapeToken(s[i])]

(***************************************************************************)
(* Text-mode file I/O (lines 40-41, 60-61).  open(..., 'r') reads with     *)
(* universal newlines: "\r\n" and "\r" arrive as "\n".  open(..., 'w')     *)
(* writes "\n" as os.linesep.                                              *)
(***************************************************************************)
Linesep == "\n"

ReadText(bytes) ==
  [i \in 1..Len(bytes) |-> IF bytes[i] \in {"\r\n", "\r"} THEN "\n" ELSE bytes[i]]

WriteText(s) == [i \in 1..Len(s) |-> IF s[i] = "\n" THEN Linesep ELSE s[i]]

(***************************************************************************)
(* re.search(r'<body>(.*?)</body>', content, re.DOTALL) (line 44): the     *)
(* leftmost <body> that some </body> follows, up to the first </body>      *)
(* after it.                                                               *)
(***************************************************************************)
BodyStarts(c) ==
  {i \in 1..Len(c) : c[i] = BodyOpen /\ \E j \in (i+1)..Len(c) : c[j] = BodyClose}

body_content_match(c) == BodyStarts(c) # {}

Min(S) == CHOOSE x \in S : \A y \in S : x <= y

BodyGroup1(c) ==
  LET i == Min(BodyStarts(c))
      j == Min({k \in (i+1)..Len(c) : c[k] = BodyClose})
  IN  SubSeq(c, i + 1, j - 1)

(***************************************************************************)
(* re.sub of line 49: every non-overlapping stretch from the top-heading   *)
(* div through the first menu button after it is deleted, left to right.   *)
(***************************************************************************)
NavStarts(s) ==
  {i \in 1..Len(s) : s[i] = TopHeading /\ \E j \in (i+1)..Len(s) : s[j] = MenuButton}

RECURSIVE RemoveNav(_)
RemoveNav(s) ==
  IF NavStarts(s) = {} THEN s
  ELSE LET i == Min(NavStarts(s))
           j == Min({k \in (i+1)..Len(s) : s[k] = MenuButton})
       IN  SubSeq(s, 1, i - 1) \o RemoveNav(SubSeq(s, j + 1, Len(s)))

\* lines 46-52: the cleaned, escaped fragment of a document that has a body
CleanBody(c) == EscapeSlashes(RemoveNav(BodyGroup1(c)))

(***************************************************************************)
(* The pattern of line 58 matches when the article opening tag is followed *)
(* by an article closing tag.  It has two groups; replace_content (lines   *)
(* 55-56) asks the match for group 3, which raises IndexError on the first *)
(* match.                                                                  *)
(***************************************************************************)
ArticleGroups == 2

ArticleMatches(c) ==
  \E i \in 1..Len(c) : c[i] = ArticleOpen /\ \E j \in (i+1)..Len(c) : c[j] = ArticleClose

\* faulty variant: the callback asks for group 2, which exists
replace_content_returns == 2 > ArticleGroups

replace_content_raises == 3 > ArticleGroups

(***************************************************************************)
(* Filesystem primitives.                                                  *)
(***************************************************************************)
IsPrefix(d, p) == Len(d) <= Len(p) /\ SubSeq(p, 1, Len(d)) = d

Under(d, p) == Len(d) < Len(p) /\ IsPrefix(d, p)

basename(p) == p[Len(p)]

exists(f, p) == p \in DOMAIN f

isdir(f, p) == exists(f, p) /\ f[p].kind = "dir"

isfile(f, p) == exists(f, p) /\ f[p].kind = "file"

\* faulty variant: a listing that leaves directories out
listdirFilesOnly(f, d) ==
  {p \in DOMAIN f : Len(p) = Len(d) + 1 /\ IsPrefix(d, p) /\ f[p].kind = "file"}

listdir(f, d) == {p \in DOMAIN f : Len(p) = Len(d) + 1 /\ IsPrefix(d, p)}

Restrict(f, S) == [q \in S |-> f[q]]

makedirs(f, d) == (d :> [kind |-> "dir", content |-> <<>>, ino |-> d]) @@ f

unlink(f, p) == Restrict(f, DOMAIN f \ {p})

rmtree(f, p) == Restrict(f, {q \in DOMAIN f : ~IsPrefix(p, q)})

\* the states an rmtree that fails part-way can leave: some of the
\* directory's descendants are gone, whole subtrees at a time, p itself stays
rmtreePartial(f, p) ==
  {Restrict(f, DOMAIN f \ R) :
     R \in {R \in SUBSET {q \in DOMAIN f : Under(p, q)} :
              \A q \in R : \A r \in DOMAIN f : IsPrefix(q, r) => r \in R}}

\* os.rename(src, dst): the subtree at src is re-rooted at dst; a file at
\* dst is replaced
rename(f, src, dst) ==
  LET moved == {q \in DOMAIN f : IsPrefix(src, q)}
      to(q) == dst \o SubSeq(q, Len(src) + 1, Len(q))
      kept  == (DOMAIN f \ moved) \ {dst}
  IN  [q \in kept \cup {to(m) : m \in moved} |->
         IF \E m \in moved : to(m) = q
         THEN f[CHOOSE m \in moved : to(m) = q]
         ELSE f[q]]

(***************************************************************************)
(* shutil.move(src, dst) (lines 28, 67): into dst when dst is a directory, *)
(* an error when that place is taken; a directory cannot replace a file.   *)
(***************************************************************************)
real_dst(f, src, dst) == IF isdir(f, dst) THEN dst \o <<basename(src)>> ELSE dst

moveRaises(f, src, dst) ==
  \/ isdir(f, dst) /\ exists(f, real_dst(f, src, dst))
  \/ isfile(f, dst) /\ isdir(f, src)

\* faulty variant: a copy, the source stays where it was
moveCopies(f, src, dst) == rename(f, src, real_dst(f, src, dst)) @@ f

move(f, src, dst) == rename(f, src, real_dst(f, src, dst))

(***************************************************************************)
(* file.endswith(".html") (line 38) over the names of the model.           *)
(***************************************************************************)
HtmlNames == {"index.html", "a.html", "x.html"}

endswith_html(name) == name \in HtmlNames

\* the files os.walk(REPLACEMENT_DIRECTORY) yields that pass line 38
WalkFiles(f) ==
  {p \in DOMAIN f : Under(REPLACEMENT_DIRECTORY, p) /\ f[p].kind = "file"
                    /\ endswith_html(basename(p))}

\* os.walk is top-down: a directory's own files come before its
\* subdirectories' files
WalkNext(S) == {p \in S : \A q \in S : Len(p) <= Len(q)}


(***************************************************************************)
(* Substitution of line 58 with a callback that returns normally: every    *)
(* article region becomes opening tag, fragment, closing tag.              *)
(***************************************************************************)
ArticleStarts(c) ==
  {i \in 1..Len(c) : c[i] = ArticleOpen /\ \E j \in (i+1)..Len(c) : c[j] = ArticleClose}

RECURSIVE ArticleSub(_, _)
ArticleSub(c, fragment) ==
  IF ArticleStarts(c) = {} THEN c
  ELSE LET i == Min(ArticleStarts(c))
           j == Min({k \in (i+1)..Len(c) : c[k] = ArticleClose})
       IN  SubSeq(c, 1, i - 1) \o <<ArticleOpen>> \o fragment \o <<ArticleClose>>
             \o ArticleSub(SubSeq(c, j + 1, Len(c)), fragment)

(***************************************************************************)
(* Initial filesystems.  The source bundle holds generated pages, the      *)
(* staging directory what an earlier run left behind, the destination      *)
(* the site built by the documentation generator (with the shell document) *)
(* and what an earlier run published.                                      *)
(***************************************************************************)
File(p, c) == p :> [kind |-> "file", content |-> c, ino |-> p]

Dir(p) == p :> [kind |-> "dir", content |-> <<>>, ino |-> p]

NoFiles == <<>>

\* generated pages: the cases of the patterns of lines 44, 49 and 58
Docs ==
  { <<"<html>", BodyOpen, "<p>pkg", "/", "sub<", "/", "p>", BodyClose>>,
    <<BodyOpen, TopHeading, "narrow", MenuButton, "<p>t<", "/", "p>", BodyClose>>,
    <<BodyOpen, TopHeading, "t", BodyClose>>,
    <<BodyOpen, MenuButton, "t", BodyClose>>,
    <<BodyOpen, ArticleOpen, "t", ArticleClose, BodyClose>>,
    <<BodyOpen, ArticleClose, "t", ArticleOpen, BodyClose>>,
    <<"<body class=\"x\">", ArticleOpen, "t", ArticleClose, BodyClose>>,
    <<BodyOpen, "t", "\r\n", BodyClose, "\n">> }

SubDocs ==
  { <<BodyOpen, TopHeading, MenuButton, "sub", BodyClose>>,
    <<ArticleOpen, BodyOpen, "sub", "\r", BodyClose, ArticleClose>> }

IndexDoc == <<BodyOpen, TopHeading, MenuButton, "index", BodyClose>>

TextDoc == <<BodyOpen, ArticleOpen, "/", ArticleClose, BodyClose>>

StaleDoc == <<BodyOpen, "stale", BodyClose>>

ShellDocs ==
  { <<"<html>", BodyOpen, "nav", ArticleOpen, "<p>placeholder<", "/", "p>", ArticleClose, BodyClose>>,
    <<"<html>", BodyOpen, "nav", BodyClose>> }

SourceTrees ==
  {NoFiles} \cup
  { t \in { Dir(SOURCE_DIRECTORY) @@ a @@ i @@ b @@ s :
              a \in {NoFiles} \cup {File(SOURCE_DIRECTORY \o <<"a.html">>, d) : d \in Docs},
              i \in {NoFiles, File(SOURCE_DIRECTORY \o <<"index.html">>, IndexDoc)},
              b \in {NoFiles, File(SOURCE_DIRECTORY \o <<"b.txt">>, TextDoc)},
              s \in {NoFiles} \cup
                    { Dir(SOURCE_DIRECTORY \o <<"sub">>)
                        @@ File(SOURCE_DIRECTORY \o <<"sub", "index.html">>, d) : d \in SubDocs } } :
      Cardinality(listdir(t, SOURCE_DIRECTORY)) <= MaxSrc }

StagingTrees ==
  {NoFiles} \cup
  { t \in { Dir(REPLACEMENT_DIRECTORY) @@ a @@ o :
              a \in {NoFiles, File(REPLACEMENT_DIRECTORY \o <<"a.html">>, StaleDoc)},
              o \in {NoFiles,
                     Dir(REPLACEMENT_DIRECTORY \o <<"old">>)
                       @@ File(REPLACEMENT_DIRECTORY \o <<"old", "x.html">>, StaleDoc)} } :
      Cardinality(listdir(t, REPLACEMENT_DIRECTORY)) <= MaxStale }

DestTrees ==
  { t \in { Dir(ACTUAL_DIR) @@ Dir(ACTUAL_DIR \o <<"test">>) @@ File(SOURCE_FILE, sh) @@ a @@ s :
              sh \in ShellDocs,
              a \in {NoFiles, File(ACTUAL_DIR \o <<"a.html">>, StaleDoc)},
              s \in {NoFiles,
                     Dir(ACTUAL_DIR \o <<"sub">>),
                     Dir(ACTUAL_DIR \o <<"sub">>) @@ Dir(ACTUAL_DIR \o <<"sub", "sub">>)} } :
      Cardinality(listdir(t, ACTUAL_DIR) \ {ACTUAL_DIR \o <<"test">>}) <= MaxOld }

Init ==
  /\ \E s \in SourceTrees, g \in StagingTrees, d \in DestTrees : fs = s @@ g @@ d
  /\ fs0 = fs
  /\ after1 = fs
  /\ pc = "L13"
  /\ exc = "none"
  /\ todo = {}
  /\ content = <<>>
  /\ body_content = <<>>
  /\ visited = {}
  /\ run = 1

\* faulty variant: an exception is swallowed and the script goes on
RunningAfterException == pc # "end"

Running == exc = "none" /\ pc # "end"

\* faulty variant: a loop is left while entries remain
LoopExhaustedEarly == TRUE

\* a for-loop ends when its iterator is exhausted
LoopExhausted == todo = {}

(***************************************************************************)
(* Lines 12-17: create the staging directory if it is missing, then list   *)
(* it for the cleanup loop.                                                *)
(***************************************************************************)
EnsureStaging ==
  /\ Running /\ pc = "L13"
  /\ fs' = IF ~exists(fs, REPLACEMENT_DIRECTORY)
           THEN makedirs(fs, REPLACEMENT_DIRECTORY) ELSE fs
  /\ todo' = listdir(fs', REPLACEMENT_DIRECTORY)
  /\ pc' = "L17"
  /\ UNCHANGED <<exc, content, body_content, visited, run, fs0, after1>>

\* faulty variant: the cleanup skips directories
CleanResultFilesOnly(f, p) == IF isfile(f, p) THEN unlink(f, p) ELSE f

\* lines 18-22: one iteration of the cleanup loop
CleanResult(f, p) ==
  IF isfile(f, p) THEN unlink(f, p)
  ELSE IF isdir(f, p) THEN rmtree(f, p)
  ELSE f

CleanEntry ==
  /\ Running /\ pc = "L17"
  /\ \E p \in todo :
       /\ fs' = CleanResult(fs, p)
       /\ todo' = todo \ {p}
  /\ UNCHANGED <<pc, exc, content, body_content, visited, run, fs0, after1>>

\* line 22 failing part-way through a directory
CleanEntryFails ==
  /\ Running /\ pc = "L17"
  /\ \E p \in todo :
       /\ isdir(fs, p)
       /\ fs' \in rmtreePartial(fs, p)
  /\ exc' = "OSError"
  /\ UNCHANGED <<pc, todo, content, body_content, visited, run, fs0, after1>>

(***************************************************************************)
(* Line 25: list the source directory; a missing directory raises.         *)
(***************************************************************************)
ListSource ==
  /\ Running /\ pc = "L17" /\ LoopExhausted
  /\ pc' = "L25"
  /\ IF exists(fs, SOURCE_DIRECTORY)
     THEN todo' = listdir(fs, SOURCE_DIRECTORY) /\ exc' = exc
     ELSE todo' = todo /\ exc' = "FileNotFoundError"
  /\ UNCHANGED <<fs, content, body_content, visited, run, fs0, after1>>

\* lines 26-28: one iteration of the first move loop
MoveEntry ==
  /\ Running /\ pc = "L25"
  /\ \E p \in todo :
       LET dst == REPLACEMENT_DIRECTORY \o <<basename(p)>> IN
       IF moveRaises(fs, p, dst)
       THEN exc' = "shutil.Error" /\ UNCHANGED <<fs, todo>>
       ELSE fs' = move(fs, p, dst) /\ todo' = todo \ {p} /\ exc' = exc
  /\ UNCHANGED <<pc, content, body_content, visited, run, fs0, after1>>

(***************************************************************************)
(* Lines 30-36: delete the staging directory's index.html if there is one, *)
(* then start the walk over the staged files.                              *)
(***************************************************************************)
index_html_path == REPLACEMENT_DIRECTORY \o <<"index.html">>

\* faulty variant: the index is left in place
RemoveIndexResultKeeps(f) == f

RemoveIndexResult(f) == IF exists(f, index_html_path) THEN unlink(f, index_html_path) ELSE f

RemoveIndex ==
  /\ Running /\ pc = "L25" /\ LoopExhausted
  /\ IF isdir(fs, index_html_path)
     THEN exc' = "OSError" /\ UNCHANGED <<fs, todo, pc>>
     ELSE /\ fs' = RemoveIndexResult(fs)
          /\ todo' = WalkFiles(fs')
          /\ pc' = "L36"
          /\ exc' = exc
  /\ UNCHANGED <<content, body_content, visited, run, fs0, after1>>

(***************************************************************************)
(* Lines 38-61: one document of the walk.                                  *)
(***************************************************************************)
Transform ==
  /\ Running /\ pc = "L36"
  /\ \E p \in WalkNext(todo) :
       LET c == ReadText(fs[p].content) IN
       /\ content' = c
       /\ visited' = visited \cup {fs[p].ino}
       /\ IF body_content_match(c)
          THEN /\ body_content' = CleanBody(c)
               /\ IF ArticleMatches(c) /\ replace_content_raises
                  THEN exc' = "IndexError" /\ UNCHANGED <<fs, todo>>
                  ELSE /\ fs' = [fs EXCEPT ![p].content =
                                   WriteText(ArticleSub(c, body_content'))]
                       /\ todo' = todo \ {p}
                       /\ exc' = exc
          ELSE /\ todo' = todo \ {p}
               /\ UNCHANGED <<fs, body_content, exc>>
  /\ UNCHANGED <<pc, run, fs0, after1>>

\* line 64: list the staging directory for the second move loop
ListStaging ==
  /\ Running /\ pc = "L36" /\ LoopExhausted
  /\ todo' = listdir(fs, REPLACEMENT_DIRECTORY)
  /\ pc' = "L64"
  /\ UNCHANGED <<fs, exc, content, body_content, visited, run, fs0, after1>>

\* lines 65-67: one iteration of the second move loop
PublishEntry ==
  /\ Running /\ pc = "L64"
  /\ \E p \in todo :
       LET dst == ACTUAL_DIR \o <<basename(p)>> IN
       IF moveRaises(fs, p, dst)
       THEN exc' = "shutil.Error" /\ UNCHANGED <<fs, todo>>
       ELSE fs' = move(fs, p, dst) /\ todo' = todo \ {p} /\ exc' = exc
  /\ UNCHANGED <<pc, content, body_content, visited, run, fs0, after1>>

\* the end of the script
Finish ==
  /\ Running /\ pc = "L64" /\ LoopExhausted
  /\ pc' = "end"
  /\ UNCHANGED <<fs, exc, todo, content, body_content, visited, run, fs0, after1>>

\* any filesystem call of the statement about to run may raise OSError
RaiseOSError ==
  /\ Running
  /\ exc' = "OSError"
  /\ UNCHANGED <<fs, pc, todo, content, body_content, visited, run, fs0, after1>>

\* the script is started again directly after a run that completed
Rerun ==
  /\ pc = "end" /\ exc = "none" /\ run < MaxRuns
  /\ run' = run + 1
  /\ after1' = IF run = 1 THEN fs ELSE after1
  /\ pc' = "L13"
  /\ todo' = {}
  /\ content' = <<>>
  /\ body_content' = <<>>
  /\ visited' = {}
  /\ UNCHANGED <<fs, exc, fs0>>

Next ==
  \/ EnsureStaging
  \/ CleanEntry
  \/ CleanEntryFails
  \/ ListSource
  \/ MoveEntry
  \/ RemoveIndex
  \/ Transform
  \/ ListStaging
  \/ PublishEntry
  \/ Finish
  \/ RaiseOSError
  \/ Rerun

Spec == Init /\ [][Next]_vars

(***************************************************************************)
(* Vocabulary of the properties.                                           *)
(***************************************************************************)
Completed == pc = "end" /\ exc = "none"

\* in the destination directory, outside the staging directory
InDest(p) == Under(ACTUAL_DIR, p) /\ ~IsPrefix(REPLACEMENT_DIRECTORY, p)

InStaging(p) == Under(REPLACEMENT_DIRECTORY, p)

\* nodes by where they were initially
FromSource(p) == Under(SOURCE_DIRECTORY, fs[p].ino)

Stale(p) == Under(REPLACEMENT_DIRECTORY, fs[p].ino)

TopIndex0 == SOURCE_DIRECTORY \o <<"index.html">>

SourceFiles0 == {p \in DOMAIN fs0 : Under(SOURCE_DIRECTORY, p) /\ fs0[p].kind = "file"}

SourceEntries0 == listdir(fs0, SOURCE_DIRECTORY)

\* the documents the run has placed in the destination
Published == {q \in DOMAIN fs : InDest(q) /\ FromSource(q) /\ fs[q].kind = "file"}

\* a page the walk rewrites: an .html file with a bare body pair
IsHtml0(i) == endswith_html(basename(i))

Text0(i) == ReadText(fs0[i].content)

ShellText == ReadText(fs0[SOURCE_FILE].content)

\* both known fragments taken out one by one, wherever they are
RemoveEachFragment(s) == SelectSeq(s, LAMBDA t : t \notin {TopHeading, MenuButton})

(***************************************************************************)
(* C1: after a run that completed, over a source directory that held a     *)
(* top-level index.html, every other source file is at exactly one place   *)
(* in the destination, under its own name, the index is nowhere, and the   *)
(* run has placed (number of source files - 1) files in the destination.   *)
(***************************************************************************)
C1_OneOutputPerDocument ==
  (Completed /\ TopIndex0 \in DOMAIN fs0) =>
    /\ \A p \in SourceFiles0 \ {TopIndex0} :
         Cardinality({q \in DOMAIN fs : InDest(q) /\ fs[q].ino = p
                                         /\ basename(q) = basename(p)}) = 1
    /\ \A q \in DOMAIN fs : fs[q].ino # TopIndex0
    /\ Cardinality(Published) = Cardinality(SourceFiles0) - 1

C1_Witness ==
  /\ Completed /\ run = 1
  /\ TopIndex0 \in DOMAIN fs0
  /\ Cardinality(SourceFiles0) = 3
  /\ \E p \in SourceFiles0 : Len(p) = Len(SOURCE_DIRECTORY) + 2

(***************************************************************************)
(* C2: every published page is the shell document with each article region *)
(* holding the page's body, the two fragments removed and slashes escaped, *)
(* and the shell's text everywhere else.                                   *)
(***************************************************************************)
C2_SplicedIntoShell ==
  Completed =>
    \A q \in Published :
      (IsHtml0(fs[q].ino) /\ body_content_match(Text0(fs[q].ino))) =>
         fs[q].content =
           ArticleSub(ShellText,
                      EscapeSlashes(RemoveEachFragment(BodyGroup1(Text0(fs[q].ino)))))

(***************************************************************************)
(* C3: a merge target without an article region ends the run at once: the  *)
(* document the substitution of line 58 is applied to, and the shell       *)
(* document, each have an article region whenever a page with a body has   *)
(* been through the loop body without an exception.                        *)
(***************************************************************************)
C3_MissingPlaceholderAborts ==
  \A i \in visited :
    (body_content_match(Text0(i)) /\ exc = "none") =>
       ArticleMatches(Text0(i)) /\ ArticleMatches(ShellText)

(***************************************************************************)
(* C4: after a run that completed, the source directory and the staging    *)
(* directory are empty and every entry the source directory held, except   *)
(* the top-level index.html, is in the destination with all that was       *)
(* below it: under its own name, or inside a directory of that name that   *)
(* the destination already held.                                           *)
(***************************************************************************)
Relocated(e, root) ==
  \A q \in DOMAIN fs0 :
    IsPrefix(e, q) =>
      LET to == root \o SubSeq(q, Len(e) + 1, Len(q))
      IN  exists(fs, to) /\ fs[to].ino = q /\ fs[to].kind = fs0[q].kind

C4_MoveSemantics ==
  Completed =>
    /\ listdir(fs, SOURCE_DIRECTORY) = {}
    /\ listdir(fs, REPLACEMENT_DIRECTORY) = {}
    /\ \A q \in DOMAIN fs : FromSource(q) => InDest(q)
    /\ \A e \in SourceEntries0 \ {TopIndex0} :
         \/ Relocated(e, ACTUAL_DIR \o <<basename(e)>>)
         \/ /\ isdir(fs0, ACTUAL_DIR \o <<basename(e)>>)
            /\ Relocated(e, ACTUAL_DIR \o <<basename(e), basename(e)>>)

C4_Witness ==
  /\ Completed /\ run = 1
  /\ \E e \in SourceEntries0 : isdir(fs0, e) /\ Relocated(e, ACTUAL_DIR \o <<basename(e)>>)
  /\ \E e \in SourceEntries0 \ {TopIndex0} : isfile(fs0, e)
  /\ TopIndex0 \in DOMAIN fs0

(***************************************************************************)
(* C5: what a previous run left in the staging directory is gone before    *)
(* the first source entry arrives there: no stale entry is in staging      *)
(* together with a source entry, none goes through the loop body, none     *)
(* reaches the destination.                                                *)
(***************************************************************************)
C5_StagingClearedFirst ==
  /\ (\E q \in DOMAIN fs : InStaging(q) /\ FromSource(q)) =>
        ~ \E q \in DOMAIN fs : InStaging(q) /\ Stale(q)
  /\ \A i \in visited : ~Under(REPLACEMENT_DIRECTORY, i)
  /\ \A q \in DOMAIN fs : Stale(q) => InStaging(q) /\ q = fs[q].ino /\ fs[q] = fs0[q]

C5_Witness ==
  /\ \E q \in DOMAIN fs0 : InStaging(q) /\ fs0[q].kind = "dir"
  /\ \E q \in DOMAIN fs : InStaging(q) /\ FromSource(q)
  /\ visited # {}

(***************************************************************************)
(* C6: the fragment of the page just read is its body with the heading     *)
(* removed wherever it is and the menu button removed wherever it is, and  *)
(* slashes escaped.                                                        *)
(***************************************************************************)
C6_FragmentsRemovedIndependently ==
  body_content_match(content) =>
    body_content = EscapeSlashes(RemoveEachFragment(BodyGroup1(content)))

(***************************************************************************)
(* C7: an exception ends the run where it is raised: nothing happens       *)
(* afterwards, the step that raises leaves the loop where it was and       *)
(* restores nothing (the filesystem is what it was, less what a failing    *)
(* rmtree had already deleted), and an exception in the loop over the      *)
(* pages of the first run leaves the source empty and nothing published.   *)
(***************************************************************************)
NothingRestored ==
  /\ DOMAIN fs' \subseteq DOMAIN fs
  /\ \A q \in DOMAIN fs' : fs'[q] = fs[q]
  /\ pc # "L17" => fs' = fs

C8_SecondRunDiffers == (Completed /\ run = 2) => fs # after1

(***************************************************************************)
(* C8 amended: the second run finds the source and the staging directory   *)
(* empty and changes nothing: at every point of it the filesystem is what  *)
(* the first run left.                                                     *)
(***************************************************************************)
C8_SecondRunChangesNothing ==
  run >= 2 =>
    /\ fs = after1
    /\ listdir(fs, SOURCE_DIRECTORY) = {}
    /\ listdir(fs, REPLACEMENT_DIRECTORY) = {}
    /\ todo = {} /\ visited = {}

C8_Witness ==
  /\ Completed /\ run = 2
  /\ Cardinality(Published) >= 2
  /\ fs # fs0

(***************************************************************************)
(* C9: the phases follow one another.  While the staging directory is      *)
(* being cleaned nothing of the source is in it; once the first move loop  *)
(* is reached nothing stale is in it; the walk starts with the source      *)
(* empty and the staged index.html gone; in the first run nothing of the   *)
(* source is in the destination before every staged page has been through  *)
(* the loop body (a later run finds there what the first one published);   *)
(* and a step of the walk touches one file.                                *)
(***************************************************************************)
C9_State ==
  /\ pc \in {"L13", "L17"} => ~ \E q \in DOMAIN fs : InStaging(q) /\ FromSource(q)
  /\ pc \notin {"L13", "L17"} => ~ \E q \in DOMAIN fs : InStaging(q) /\ Stale(q)
  /\ (pc \in {"L36", "L64", "end"} \/ visited # {}) =>
        /\ listdir(fs, SOURCE_DIRECTORY) = {}
        /\ ~exists(fs, index_html_path)
  /\ visited # {} => pc \in {"L36", "L64", "end"}
  /\ (run = 1 /\ \E q \in DOMAIN fs : InDest(q) /\ FromSource(q)) =>
        /\ pc \in {"L64", "end"}
        /\ \A q \in DOMAIN fs :
             (FromSource(q) /\ fs[q].kind = "file" /\ endswith_html(basename(q)))
               => fs[q].ino \in visited

C9_PhasesInOrder ==
  /\ []C9_State
  /\ [][pc = "L36" =>
          /\ DOMAIN fs' = DOMAIN fs
          /\ Cardinality({q \in DOMAIN fs : fs'[q] # fs[q]}) <= 1
          /\ Cardinality(visited' \ visited) <= 1]_vars

C9_Witness ==
  /\ Completed /\ run = 1
  /\ Cardinality(visited) = 2
  /\ \E q \in DOMAIN fs0 : InStaging(q)
  /\ Cardinality(SourceEntries0) = 3

(***************************************************************************)
(* C10, first half: a page with a bare body pair and an article region     *)
(* makes the loop body raise IndexError, with nothing of the source in the *)
(* destination.                                                            *)
(***************************************************************************)
BodyAndArticle(c) == body_content_match(c) /\ ArticleMatches(c)

C10_Raises ==
  /\ \A i \in visited :
       BodyAndArticle(Text0(i)) =>
         exc = "IndexError" /\ pc = "L36" /\ Published = {}
  /\ exc = "IndexError" => BodyAndArticle(content)

(***************************************************************************)
(* C10 as stated: and after a run that completed every published document  *)
(* has exactly the content it had in the source directory.                 *)
(***************************************************************************)
C10_PublishedUnchanged ==
  /\ C10_Raises
  /\ Completed => \A q \in Published : fs[q].content = fs0[fs[q].ino].content

(***************************************************************************)
(* C10 amended: and after a run that completed every published document    *)
(* has the content it had in the source directory, except that a page the  *)
(* loop rewrote (an .html file with a bare body pair) has gone through a   *)
(* text-mode read and write: "\r\n" and "\r" have become the line          *)
(* separator.                                                              *)
(***************************************************************************)
C10_PublishedUnchangedUpToNewlines ==
  /\ C10_Raises
  /\ Completed =>
       \A q \in Published :
         LET i == fs[q].ino IN
         fs[q].content =
           IF IsHtml0(i) /\ body_content_match(Text0(i))
           THEN WriteText(Text0(i))
           ELSE fs0[i].content

C10_Witness ==
  /\ exc = "IndexError"
  /\ Cardinality(visited) = 2
  /\ \E i \in visited : ~BodyAndArticle(Text0(i)) /\ body_content_match(Text0(i))

=============================================================================
